---- MODULE Spec2Model ----
(***************************************************************************)
(* tmucks: a store of named snapshots of ~/.tmux.conf kept as files in     *)
(* ~/.config/tmucks/ (config.rs), the interactive session over it          *)
(* (app.rs, driven by the key loop of tui.rs) and the one-shot commands    *)
(* (cli.rs, main.rs).                                                      *)
(*                                                                         *)
(* Strings are tuples of one-character strings, Option<T> is a tuple of    *)
(* length 0 (None) or 1 (Some), Vec indices are 0-based as in the source.  *)
(* An Instant is represented by its age in seconds, the time that has      *)
(* passed since it was taken: Instant::now() is 0, elapsed() is the age,   *)
(* and the passing of time ages it.                                        *)
(* I/O failures of the operating system (a failing copy, read_dir or       *)
(* remove on an existing path) are not modelled.                           *)
(***************************************************************************)
EXTENDS Integers, Sequences, FiniteSets, TLC

VARIABLES
    fs,                    \* files of ~/.config/tmucks/: name -> content
    live,                  \* ~/.tmux.conf: Option<content>
    phase,                 \* "shell": no session; "tui": run_app is looping
    pc,                    \* position in the loop of run_app: "tick" | "read"
    configs,               \* app.config_manager.configs
    selected,              \* app.list_state.selected()
    status_message,        \* app.status_message
    status_message_time,   \* app.status_message_time
    input_mode,            \* app.input_mode
    input_buffer,          \* app.input_buffer
    pending_update_config, \* app.pending_update_config
    call                   \* the store call made by the latest step, if any

vars == <<fs, live, phase, pc, configs, selected, status_message,
          status_message_time, input_mode, input_buffer,
          pending_update_config, call>>

appVars == <<configs, selected, status_message, status_message_time,
             input_mode, input_buffer, pending_update_config>>

(***************************************************************************)
(* Bounds of the model.                                                    *)
(***************************************************************************)
MaxTime == 5
MaxFiles == 2

Contents == {"v1", "v2"}

(***************************************************************************)
(* Option<T>                                                               *)
(***************************************************************************)
None == << >>
Some(x) == << x >>
IsSome(o) == Len(o) = 1
Unwrap(o) == o[1]

(***************************************************************************)
(* Strings                                                                 *)
(***************************************************************************)
CONF == <<".", "c", "o", "n", "f">>

\* the byte value of a character (String's Ord is bytewise)
Ord(c) ==
    CASE c = " " -> 32
      [] c = "." -> 46
      [] c = "/" -> 47
      [] c = "c" -> 99
      [] c = "f" -> 102
      [] c = "n" -> 110
      [] c = "o" -> 111
      [] c = "q" -> 113

IsWhitespace(c) == c = " "

EndsWith(s, suffix) ==
    /\ Len(s) >= Len(suffix)
    /\ SubSeq(s, Len(s) - Len(suffix) + 1, Len(s)) = suffix

IsPrefix(p, s) == Len(p) <= Len(s) /\ SubSeq(s, 1, Len(p)) = p

RECURSIVE TrimStart(_)
TrimStart(s) ==
    IF s # << >> /\ IsWhitespace(Head(s)) THEN TrimStart(Tail(s)) ELSE s

RECURSIVE TrimEnd(_)
TrimEnd(s) ==
    IF s # << >> /\ IsWhitespace(s[Len(s)])
    THEN TrimEnd(SubSeq(s, 1, Len(s) - 1))
    ELSE s

\* is_empty() tested without trim()
Trim_Identity(s) == s

Trim(s) == TrimEnd(TrimStart(s))

\* a < b in the order of String (lexicographic on bytes)
StrLess(a, b) ==
    \E i \in 1..(Len(b)) :
        /\ \A j \in 1..(i - 1) : j <= Len(a) /\ a[j] = b[j]
        /\ \/ i = Len(a) + 1
           \/ i <= Len(a) /\ Ord(a[i]) < Ord(b[i])

\* ensure_conf_extension appending the suffix whatever the name ends with
ensure_conf_extension_Always(name) == name \o CONF

ensure_conf_extension(name) ==
    IF EndsWith(name, CONF) THEN name ELSE name \o CONF

(***************************************************************************)
(* The filesystem.  A path is [dir, file]: dir is "tmucks" for a file      *)
(* directly inside ~/.config/tmucks/ and "parent" for one in ~/.config/.   *)
(***************************************************************************)
HasSlash(name) == \E i \in 1..Len(name) : name[i] = "/"

DOTDOTSLASH == <<".", ".", "/">>

\* self.config_dir.join(config_name)
Join(name) ==
    IF IsPrefix(DOTDOTSLASH, name)
    THEN [dir |-> "parent", file |-> SubSeq(name, Len(DOTDOTSLASH) + 1, Len(name))]
    ELSE [dir |-> "tmucks", file |-> name]

Exists(f, path) == path \in DOMAIN f

\* fs::copy onto path / fs::remove_file(path)
WriteFile(f, path, content) ==
    [p \in (DOMAIN f) \cup {path} |-> IF p = path THEN content ELSE f[p]]

RemoveFile(f, path) == [p \in (DOMAIN f) \ {path} |-> f[p]]

DirNames(f) == {p.file : p \in {q \in DOMAIN f : q.dir = "tmucks"}}

\* MinName for a sort in descending order
MinName_Greatest(S) == CHOOSE x \in S : \A y \in S : y = x \/ StrLess(y, x)

MinName(S) == CHOOSE x \in S : \A y \in S : y = x \/ StrLess(x, y)

RECURSIVE Sorted(_)
Sorted(S) ==
    IF S = {} THEN << >> ELSE <<MinName(S)>> \o Sorted(S \ {MinName(S)})

\* ConfigManager::read_configs: the names of the files of the directory, sorted
read_configs(f) == Sorted(DirNames(f))

(***************************************************************************)
(* Results: Ok(()) or Err(message); a message is pre ++ name ++ post.      *)
(***************************************************************************)
NoName == << >>
Ok == [ok |-> TRUE, pre |-> "", name |-> NoName, post |-> ""]
Err(pre, name, post) == [ok |-> FALSE, pre |-> pre, name |-> name, post |-> post]

ErrConfigNotFound(name) == Err("Config file not found: ", name, "")
ErrNoTmuxConfig == Err("No tmux config file found at ~/.tmux.conf", NoName, "")
ErrAlreadyExists(name) ==
    Err("Config '", name,
        "' already exists. Use 'update' command to overwrite an existing config.")
ErrDoesNotExist(name) ==
    Err("Config '", name,
        "' does not exist. Use 'save' command to create a new config.")

\* the error kinds of the specification, read off the messages
IsNotFound(r) ==
    \/ r = ErrNoTmuxConfig
    \/ r = ErrConfigNotFound(r.name)
    \/ r = ErrDoesNotExist(r.name)
IsAlreadyExists(r) == r = ErrAlreadyExists(r.name)

(***************************************************************************)
(* ConfigManager (config.rs).  Each operation yields its result and the    *)
(* filesystem it leaves: [res, fs, live].                                  *)
(***************************************************************************)
Outcome(res, f, l) == [res |-> res, fs |-> f, live |-> l]

\* the outcomes of running `tmux source-file ~/.tmux.conf`: the command ran
\* and tmux reloaded, or it failed (tmux missing, no server, bad file)
ReloadOutcomes == {"ok", "failed"}

\* `let _ = value;`: the value is dropped and the function carries on
Discard(value, then) == then

\* apply_config copying the wrong way round
apply_config_Reversed(f, l, config_name, reload) ==
    LET source_path == Join(config_name) IN
    IF ~Exists(f, source_path)
    THEN Outcome(ErrConfigNotFound(config_name), f, l)
    ELSE IF IsSome(l) THEN Outcome(Ok, WriteFile(f, source_path, Unwrap(l)), l)
    ELSE Outcome(Ok, f, l)

\* apply_config destroying the live file before it looks for the snapshot
apply_config_Truncate(f, l, config_name, reload) ==
    LET source_path == Join(config_name) IN
    IF ~Exists(f, source_path)
    THEN Outcome(ErrConfigNotFound(config_name), f, None)
    ELSE Outcome(Ok, f, Some(f[source_path]))

\* apply_config propagating the failure of the reload with `?`
apply_config_ReloadChecked(f, l, config_name, reload) ==
    LET source_path == Join(config_name) IN
    IF ~Exists(f, source_path)
    THEN Outcome(ErrConfigNotFound(config_name), f, l)
    ELSE IF reload = "failed"
    THEN Outcome(Err("tmux source-file failed", NoName, ""), f, Some(f[source_path]))
    ELSE Outcome(Ok, f, Some(f[source_path]))

apply_config(f, l, config_name, reload) ==
    LET source_path == Join(config_name) IN
    IF ~Exists(f, source_path)
    THEN Outcome(ErrConfigNotFound(config_name), f, l)
    ELSE Discard(reload, Outcome(Ok, f, Some(f[source_path])))

\* delete_config reporting success for a file that is not there
delete_config_Silent(f, l, config_name) ==
    LET config_path == Join(config_name) IN
    IF ~Exists(f, config_path)
    THEN Outcome(Ok, f, l)
    ELSE Outcome(Ok, RemoveFile(f, config_path), l)

delete_config(f, l, config_name) ==
    LET config_path == Join(config_name) IN
    IF ~Exists(f, config_path)
    THEN Outcome(ErrConfigNotFound(config_name), f, l)
    ELSE Outcome(Ok, RemoveFile(f, config_path), l)

\* save_current_config without the dest_path.exists() check
save_current_config_Overwrite(f, l, config_name) ==
    LET dest_path == Join(config_name) IN
    IF ~IsSome(l)
    THEN Outcome(ErrNoTmuxConfig, f, l)
    ELSE Outcome(Ok, WriteFile(f, dest_path, Unwrap(l)), l)

\* save_current_config opening the destination for writing before it tests
\* whether it exists
save_current_config_Truncate(f, l, config_name) ==
    LET dest_path == Join(config_name) IN
    IF ~IsSome(l)
    THEN Outcome(ErrNoTmuxConfig, f, l)
    ELSE IF Exists(f, dest_path)
    THEN Outcome(ErrAlreadyExists(config_name),
                 WriteFile(f, dest_path, Unwrap(l)), l)
    ELSE Outcome(Ok, WriteFile(f, dest_path, Unwrap(l)), l)

save_current_config(f, l, config_name) ==
    LET dest_path == Join(config_name) IN
    IF ~IsSome(l)
    THEN Outcome(ErrNoTmuxConfig, f, l)
    ELSE IF Exists(f, dest_path)
    THEN Outcome(ErrAlreadyExists(config_name), f, l)
    ELSE Outcome(Ok, WriteFile(f, dest_path, Unwrap(l)), l)

\* update_config without the dest_path.exists() check
update_config_Create(f, l, config_name) ==
    LET dest_path == Join(config_name) IN
    IF ~IsSome(l)
    THEN Outcome(ErrNoTmuxConfig, f, l)
    ELSE Outcome(Ok, WriteFile(f, dest_path, Unwrap(l)), l)

\* update_config testing the destination before the live file
update_config_TargetFirst(f, l, config_name) ==
    LET dest_path == Join(config_name) IN
    IF ~Exists(f, dest_path)
    THEN Outcome(ErrDoesNotExist(config_name), f, l)
    ELSE IF ~IsSome(l)
    THEN Outcome(ErrNoTmuxConfig, f, l)
    ELSE Outcome(Ok, WriteFile(f, dest_path, Unwrap(l)), l)

\* update_config copying the snapshot onto the live file
update_config_Reversed(f, l, config_name) ==
    LET dest_path == Join(config_name) IN
    IF ~IsSome(l)
    THEN Outcome(ErrNoTmuxConfig, f, l)
    ELSE IF ~Exists(f, dest_path)
    THEN Outcome(ErrDoesNotExist(config_name), f, l)
    ELSE Outcome(Ok, f, Some(f[dest_path]))

update_config(f, l, config_name) ==
    LET dest_path == Join(config_name) IN
    IF ~IsSome(l)
    THEN Outcome(ErrNoTmuxConfig, f, l)
    ELSE IF ~Exists(f, dest_path)
    THEN Outcome(ErrDoesNotExist(config_name), f, l)
    ELSE Outcome(Ok, WriteFile(f, dest_path, Unwrap(l)), l)

\* the record of a store call: who made it, the operation, its argument,
\* its result, and how the reload it ran ended ("none": it ran no reload)
NoCall == [by |-> "", op |-> "", name |-> NoName, res |-> Ok, reload |-> "none"]
Call(by, op, name, res) ==
    [by |-> by, op |-> op, name |-> name, res |-> res, reload |-> "none"]
ApplyCall(by, f, name, res, reload) ==
    [by |-> by, op |-> "apply", name |-> name, res |-> res,
     reload |-> IF Exists(f, Join(name)) THEN reload ELSE "none"]

(***************************************************************************)
(* Inputs: the names given on the command line, and the texts typed in the *)
(* save prompt (the buffer is always a prefix of one of them, and Enter is *)
(* pressed on a whole text or on the empty prompt).                        *)
(***************************************************************************)
CliNames == { <<"q">>, CONF }
TypedInputs == { <<"q">>, <<"c">>, CONF, <<" ">> }
Chars == {" ", ".", "c", "f", "n", "o", "q"}

Typable(buffer) == \E t \in TypedInputs : IsPrefix(buffer, t)

\* a text with a path separator, typed in the sessions of SpecPath
PathInputs == { <<".", ".", "/", "q">> }

\* Enter is pressed on a whole text, or on the empty prompt
Entered(buffer) == buffer \in TypedInputs \cup PathInputs \cup { << >> }

\* the model keeps at most MaxFiles files
Fits(f) == Cardinality(DOMAIN f) <= MaxFiles

(***************************************************************************)
(* Status messages: [err, pre, name, post] is the text                     *)
(* (if err then "- error: ") ++ pre ++ name ++ post.                       *)
(***************************************************************************)
Msg(pre, name, post) == [err |-> FALSE, pre |-> pre, name |-> name, post |-> post]

\* format!("- error: {}", e)
ErrorMsg(e) == [err |-> TRUE, pre |-> e.pre, name |-> e.name, post |-> e.post]

default_status_message ==
    Msg("use j/k to navigate, enter to apply config, s to save current, u to update existing, d to delete, q to quit",
        NoName, "")
AppliedMsg(name) == Msg("+ applied config: ", name, "")
DeletedMsg(name) == Msg("+ deleted config: ", name, "")
SavedMsg(name) == Msg("+ saved current config as: ", name, "")
UpdatedMsg(name) == Msg("+ updated config '", name, "' with current ~/.tmux.conf")
NoSelectionMsg == Msg("- no config selected to update", NoName, "")
PromptMsg == Msg("enter config name (without .conf): ", NoName, "")
EmptyNameMsg == [err |-> TRUE, pre |-> "name cannot be empty", name |-> NoName, post |-> ""]

(***************************************************************************)
(* App (app.rs)                                                            *)
(***************************************************************************)
StatusTimeout == 5

\* Vec::get
Get(v, i) == IF i < Len(v) THEN Some(v[i + 1]) ELSE None

\* SelectFirst with the select(Some(0)) forgotten
SelectFirst_Keep(cfgs, old) == old

\* the selection App::new and App::save_current_config make on a fresh list
SelectFirst(cfgs, old) == IF cfgs # << >> THEN Some(0) ELSE old

\* next stopping at the last index instead of wrapping
next_NoWrap(cfgs, sel) ==
    IF cfgs = << >> THEN sel
    ELSE IF IsSome(sel)
         THEN (IF Unwrap(sel) >= Len(cfgs) - 1 THEN sel ELSE Some(Unwrap(sel) + 1))
         ELSE Some(0)

\* App::next
next(cfgs, sel) ==
    IF cfgs = << >> THEN sel
    ELSE IF IsSome(sel)
         THEN (IF Unwrap(sel) >= Len(cfgs) - 1 THEN Some(0) ELSE Some(Unwrap(sel) + 1))
         ELSE Some(0)

\* App::previous
previous(cfgs, sel) ==
    IF cfgs = << >> THEN sel
    ELSE IF IsSome(sel)
         THEN (IF Unwrap(sel) = 0 THEN Some(Len(cfgs) - 1) ELSE Some(Unwrap(sel) - 1))
         ELSE Some(0)

\* SelectAfterDelete stepping back to the entry before the deleted one
SelectAfterDelete_Previous(cfgs, sel) ==
    IF cfgs = << >> THEN None
    ELSE IF Unwrap(sel) = 0 THEN Some(0)
    ELSE Some(Unwrap(sel) - 1)

\* SelectAfterDelete without the clamp to the new last index
SelectAfterDelete_NoClamp(cfgs, sel) == IF cfgs = << >> THEN None ELSE sel

\* the selection App::delete_config leaves over the re-read list
SelectAfterDelete(cfgs, sel) ==
    IF cfgs = << >> THEN None
    ELSE IF Unwrap(sel) >= Len(cfgs) THEN Some(Len(cfgs) - 1)
    ELSE sel

\* Instant::now() and Instant::elapsed()
InstantNow == 0
Elapsed(instant) == instant

\* Expired with > for >=
Expired_Strict(message_time) == Elapsed(message_time) > StatusTimeout

\* message_time.elapsed() >= Duration::from_secs(5)
Expired(message_time) == Elapsed(message_time) >= StatusTimeout

\* set_status_message assigning the text alone
set_status_message_TextOnly(message) ==
    /\ status_message' = message
    /\ UNCHANGED status_message_time

\* App::set_status_message
set_status_message(message) ==
    /\ status_message' = message
    /\ status_message_time' = Some(InstantNow)

\* update_status_message resetting the text and keeping the timestamp
update_status_message_TextOnly ==
    IF IsSome(status_message_time) /\ Expired(Unwrap(status_message_time))
    THEN /\ status_message' = default_status_message
         /\ UNCHANGED status_message_time
    ELSE UNCHANGED <<status_message, status_message_time>>

\* App::update_status_message
update_status_message ==
    IF IsSome(status_message_time) /\ Expired(Unwrap(status_message_time))
    THEN /\ status_message' = default_status_message
         /\ status_message_time' = None
    ELSE UNCHANGED <<status_message, status_message_time>>

\* SelectedName looking up the first entry whatever the index
SelectedName_First == IF IsSome(selected) THEN Get(configs, 0) ELSE None

\* the element under the selection, as the App methods look it up
SelectedName == IF IsSome(selected) THEN Get(configs, Unwrap(selected)) ELSE None

NoApp ==
    /\ configs' = << >>
    /\ selected' = None
    /\ status_message' = default_status_message
    /\ status_message_time' = None
    /\ input_mode' = "Normal"
    /\ input_buffer' = << >>
    /\ pending_update_config' = None

(***************************************************************************)
(* The initial state: an empty snapshot directory, no ~/.tmux.conf, no     *)
(* session.                                                                *)
(***************************************************************************)
Init ==
    /\ fs = [p \in {} |-> "v1"]
    /\ live = None
    /\ phase = "shell"
    /\ pc = "tick"
    /\ configs = << >>
    /\ selected = None
    /\ status_message = default_status_message
    /\ status_message_time = None
    /\ input_mode = "Normal"
    /\ input_buffer = << >>
    /\ pending_update_config = None
    /\ call = NoCall

(***************************************************************************)
(* The environment: the user edits or removes ~/.tmux.conf; time passes.   *)
(* Within a session this happens while run_app waits in event::read.       *)
(***************************************************************************)
Waiting == phase = "shell" \/ pc = "read"

EditLive ==
    /\ Waiting
    /\ \E c \in Contents : Some(c) # live /\ live' = Some(c)
    /\ call' = NoCall
    /\ UNCHANGED <<fs, phase, pc, appVars>>

RemoveLive ==
    /\ Waiting
    /\ IsSome(live)
    /\ live' = None
    /\ call' = NoCall
    /\ UNCHANGED <<fs, phase, pc, appVars>>

\* a second passes while run_app waits in event::read
AdvanceTime ==
    /\ phase = "tui" /\ pc = "read"
    /\ IsSome(status_message_time)
    /\ Elapsed(Unwrap(status_message_time)) < MaxTime
    /\ status_message_time' = Some(Unwrap(status_message_time) + 1)
    /\ call' = NoCall
    /\ UNCHANGED <<fs, live, phase, pc, configs, selected, status_message,
                   input_mode, input_buffer, pending_update_config>>

(***************************************************************************)
(* The one-shot commands: ConfigManager::new, ensure_conf_extension, one   *)
(* store call.                                                             *)
(***************************************************************************)
StoreOp(op, f, l, name, reload) ==
    CASE op = "apply" -> apply_config(f, l, name, reload)
      [] op = "save" -> save_current_config(f, l, name)
      [] op = "update" -> update_config(f, l, name)
      [] op = "delete" -> delete_config(f, l, name)

Command(op, name, reload) ==
    LET config_name == ensure_conf_extension(name)
        out == StoreOp(op, fs, live, config_name, reload)
    IN /\ Fits(out.fs)
       /\ fs' = out.fs
       /\ live' = out.live
       /\ call' = IF op = "apply"
                  THEN ApplyCall("cli", fs, config_name, out.res, reload)
                  ELSE Call("cli", op, config_name, out.res)
       /\ UNCHANGED <<phase, pc, appVars>>

\* only apply runs a reload
Reloads(op) == IF op = "apply" THEN ReloadOutcomes ELSE {"none"}

CliApply ==
    /\ phase = "shell"
    /\ \E name \in CliNames, reload \in Reloads("apply") :
          Command("apply", name, reload)
CliSave ==
    phase = "shell" /\ \E name \in CliNames : Command("save", name, "none")
CliUpdate ==
    phase = "shell" /\ \E name \in CliNames : Command("update", name, "none")
CliDelete ==
    phase = "shell" /\ \E name \in CliNames : Command("delete", name, "none")

(***************************************************************************)
(* The interactive session: tui::run and the loop of run_app (tui.rs).     *)
(* One iteration is update_status_message and the draw (Tick), then the    *)
(* blocking read of one event and its handler (one of the key actions).    *)
(***************************************************************************)
\* tui::run up to the loop: App::new
Run ==
    /\ phase = "shell"
    /\ phase' = "tui"
    /\ pc' = "tick"
    /\ configs' = read_configs(fs)
    /\ selected' = SelectFirst(read_configs(fs), None)
    /\ status_message' = default_status_message
    /\ status_message_time' = None
    /\ input_mode' = "Normal"
    /\ input_buffer' = << >>
    /\ pending_update_config' = None
    /\ call' = NoCall
    /\ UNCHANGED <<fs, live>>

Tick ==
    /\ phase = "tui" /\ pc = "tick"
    /\ update_status_message
    /\ pc' = "read"
    /\ call' = NoCall
    /\ UNCHANGED <<fs, live, phase, configs, selected, input_mode,
                   input_buffer, pending_update_config>>

Reading(mode) == phase = "tui" /\ pc = "read" /\ input_mode = mode

\* 'q' handled before the match on the input mode
KeyQuit_AnyMode ==
    /\ phase = "tui" /\ pc = "read"
    /\ phase' = "shell"
    /\ pc' = "tick"
    /\ NoApp
    /\ call' = NoCall
    /\ UNCHANGED <<fs, live>>

\* InputMode::Normal, 'q'
KeyQuit ==
    /\ Reading("Normal")
    /\ phase' = "shell"
    /\ pc' = "tick"
    /\ NoApp
    /\ call' = NoCall
    /\ UNCHANGED <<fs, live>>

\* InputMode::Normal, 'j' | Down
KeyNext ==
    /\ Reading("Normal")
    /\ selected' = next(configs, selected)
    /\ pc' = "tick"
    /\ call' = NoCall
    /\ UNCHANGED <<fs, live, phase, configs, status_message,
                   status_message_time, input_mode, input_buffer,
                   pending_update_config>>

\* InputMode::Normal, 'k' | Up
KeyPrevious ==
    /\ Reading("Normal")
    /\ selected' = previous(configs, selected)
    /\ pc' = "tick"
    /\ call' = NoCall
    /\ UNCHANGED <<fs, live, phase, configs, status_message,
                   status_message_time, input_mode, input_buffer,
                   pending_update_config>>

\* InputMode::Normal, Enter: App::apply_config
KeyApply ==
    /\ Reading("Normal")
    /\ pc' = "tick"
    /\ IF IsSome(SelectedName)
       THEN \E reload \in ReloadOutcomes :
            LET config_name == Unwrap(SelectedName)
                out == apply_config(fs, live, config_name, reload)
            IN /\ fs' = out.fs
               /\ live' = out.live
               /\ call' = ApplyCall("tui", fs, config_name, out.res, reload)
               /\ IF out.res.ok
                  THEN set_status_message(AppliedMsg(config_name))
                  ELSE set_status_message(ErrorMsg(out.res))
       ELSE /\ call' = NoCall
            /\ UNCHANGED <<fs, live, status_message, status_message_time>>
    /\ UNCHANGED <<phase, configs, selected, input_mode, input_buffer,
                   pending_update_config>>

\* App::delete_config patching the selection without re-reading the directory
KeyDelete_NoRefresh ==
    /\ Reading("Normal")
    /\ pc' = "tick"
    /\ IF IsSome(SelectedName)
       THEN LET config_name == Unwrap(SelectedName)
                out == delete_config(fs, live, config_name)
            IN /\ fs' = out.fs
               /\ live' = out.live
               /\ call' = Call("tui", "delete", config_name, out.res)
               /\ IF out.res.ok
                  THEN /\ set_status_message(DeletedMsg(config_name))
                       /\ UNCHANGED <<configs, selected>>
                  ELSE /\ set_status_message(ErrorMsg(out.res))
                       /\ UNCHANGED <<configs, selected>>
       ELSE /\ call' = NoCall
            /\ UNCHANGED <<fs, live, status_message, status_message_time,
                           configs, selected>>
    /\ UNCHANGED <<phase, input_mode, input_buffer, pending_update_config>>

\* InputMode::Normal, 'd': App::delete_config
KeyDelete ==
    /\ Reading("Normal")
    /\ pc' = "tick"
    /\ IF IsSome(SelectedName)
       THEN LET config_name == Unwrap(SelectedName)
                out == delete_config(fs, live, config_name)
            IN /\ fs' = out.fs
               /\ live' = out.live
               /\ call' = Call("tui", "delete", config_name, out.res)
               /\ IF out.res.ok
                  THEN /\ set_status_message(DeletedMsg(config_name))
                       /\ configs' = read_configs(out.fs)
                       /\ selected' = SelectAfterDelete(read_configs(out.fs), selected)
                  ELSE /\ set_status_message(ErrorMsg(out.res))
                       /\ UNCHANGED <<configs, selected>>
       ELSE /\ call' = NoCall
            /\ UNCHANGED <<fs, live, status_message, status_message_time,
                           configs, selected>>
    /\ UNCHANGED <<phase, input_mode, input_buffer, pending_update_config>>

\* InputMode::Normal, 's'
KeyBeginSave ==
    /\ Reading("Normal")
    /\ pc' = "tick"
    /\ input_mode' = "Saving"
    /\ input_buffer' = << >>
    /\ status_message' = PromptMsg
    /\ call' = NoCall
    /\ UNCHANGED <<fs, live, phase, configs, selected,
                   status_message_time, pending_update_config>>

\* InputMode::Normal, 'u': App::start_update_mode
KeyBeginUpdate ==
    /\ Reading("Normal")
    /\ pc' = "tick"
    /\ IF IsSome(SelectedName)
       THEN /\ pending_update_config' = Some(Unwrap(SelectedName))
            /\ input_mode' = "UpdateConfirm"
            /\ UNCHANGED <<status_message, status_message_time>>
       ELSE /\ set_status_message(NoSelectionMsg)
            /\ UNCHANGED <<pending_update_config, input_mode>>
    /\ call' = NoCall
    /\ UNCHANGED <<fs, live, phase, configs, selected, input_buffer>>

\* a key no arm of the current mode's match handles, or an event that is no key
KeyOther ==
    /\ phase = "tui" /\ pc = "read"
    /\ pc' = "tick"
    /\ call' = NoCall
    /\ UNCHANGED <<fs, live, phase, appVars>>

\* InputMode::Saving, Enter: App::save_current_config on the normalised name
SavingEnter ==
    /\ Reading("Saving")
    /\ Entered(input_buffer)
    /\ pc' = "tick"
    /\ IF Trim(input_buffer) = << >>
       THEN /\ set_status_message(EmptyNameMsg)
            /\ call' = NoCall
            /\ UNCHANGED <<fs, live, configs, selected>>
       ELSE LET name == IF EndsWith(input_buffer, CONF)
                        THEN input_buffer
                        ELSE input_buffer \o CONF
                out == save_current_config(fs, live, name)
            IN /\ Fits(out.fs)
               /\ fs' = out.fs
               /\ live' = out.live
               /\ call' = Call("tui", "save", name, out.res)
               /\ IF out.res.ok
                  THEN /\ set_status_message(SavedMsg(name))
                       /\ configs' = read_configs(out.fs)
                       /\ selected' = SelectFirst(read_configs(out.fs), selected)
                  ELSE /\ set_status_message(ErrorMsg(out.res))
                       /\ UNCHANGED <<configs, selected>>
    /\ input_mode' = "Normal"
    /\ input_buffer' = << >>
    /\ UNCHANGED <<phase, pending_update_config>>

\* Esc in the save prompt without input_buffer.clear()
SavingEsc_KeepsBuffer ==
    /\ Reading("Saving")
    /\ pc' = "tick"
    /\ input_mode' = "Normal"
    /\ status_message' = default_status_message
    /\ call' = NoCall
    /\ UNCHANGED <<fs, live, phase, configs, selected, input_buffer,
                   status_message_time, pending_update_config>>

\* InputMode::Saving, Esc
SavingEsc ==
    /\ Reading("Saving")
    /\ pc' = "tick"
    /\ input_mode' = "Normal"
    /\ input_buffer' = << >>
    /\ status_message' = default_status_message
    /\ call' = NoCall
    /\ UNCHANGED <<fs, live, phase, configs, selected,
                   status_message_time, pending_update_config>>

\* InputMode::Saving, Char(c)
SavingChar ==
    /\ Reading("Saving")
    /\ pc' = "tick"
    /\ \E c \in Chars :
          /\ Typable(Append(input_buffer, c))
          /\ input_buffer' = Append(input_buffer, c)
    /\ call' = NoCall
    /\ UNCHANGED <<fs, live, phase, configs, selected, status_message,
                   status_message_time, input_mode, pending_update_config>>

\* the buffer cleared instead of popped
Pop_Clear(s) == << >>

\* String::pop
Pop(s) == IF s = << >> THEN s ELSE SubSeq(s, 1, Len(s) - 1)

\* InputMode::Saving, Backspace
SavingBackspace ==
    /\ Reading("Saving")
    /\ pc' = "tick"
    /\ input_buffer' = Pop(input_buffer)
    /\ call' = NoCall
    /\ UNCHANGED <<fs, live, phase, configs, selected, status_message,
                   status_message_time, input_mode, pending_update_config>>

\* InputMode::UpdateConfirm, 'y' | 'Y': App::confirm_update.  The target is
\* taken out of pending_update_config first; a failing update_config returns
\* through `?` before input_mode is assigned.
ConfirmYes ==
    /\ Reading("UpdateConfirm")
    /\ pc' = "tick"
    /\ pending_update_config' = None
    /\ IF IsSome(pending_update_config)
       THEN LET config_name == Unwrap(pending_update_config)
                out == update_config(fs, live, config_name)
            IN /\ fs' = out.fs
               /\ live' = out.live
               /\ call' = Call("tui", "update", config_name, out.res)
               /\ IF out.res.ok
                  THEN /\ set_status_message(UpdatedMsg(config_name))
                       /\ input_mode' = "Normal"
                  ELSE /\ set_status_message(ErrorMsg(out.res))
                       /\ UNCHANGED input_mode
       ELSE /\ input_mode' = "Normal"
            /\ call' = NoCall
            /\ UNCHANGED <<fs, live, status_message, status_message_time>>
    /\ UNCHANGED <<phase, configs, selected, input_buffer>>

\* cancel_update without `self.input_mode = InputMode::Normal`
ConfirmNo_KeepsMode ==
    /\ Reading("UpdateConfirm")
    /\ pc' = "tick"
    /\ pending_update_config' = None
    /\ status_message' = default_status_message
    /\ status_message_time' = None
    /\ call' = NoCall
    /\ UNCHANGED <<fs, live, phase, configs, selected, input_buffer, input_mode>>

\* InputMode::UpdateConfirm, 'n' | 'N' | Esc: App::cancel_update
ConfirmNo ==
    /\ Reading("UpdateConfirm")
    /\ pc' = "tick"
    /\ pending_update_config' = None
    /\ input_mode' = "Normal"
    /\ status_message' = default_status_message
    /\ status_message_time' = None
    /\ call' = NoCall
    /\ UNCHANGED <<fs, live, phase, configs, selected, input_buffer>>

(***************************************************************************)
(* Another process running a one-shot command while the session is open.   *)
(***************************************************************************)
Concurrent ==
    /\ phase = "tui" /\ pc = "read"
    /\ \E op \in {"apply", "save", "update", "delete"}, name \in CliNames :
          \E reload \in Reloads(op) : Command(op, name, reload)

Cli == CliApply \/ CliSave \/ CliUpdate \/ CliDelete
Env == EditLive \/ RemoveLive \/ AdvanceTime
Keys ==
    \/ KeyQuit \/ KeyNext \/ KeyPrevious \/ KeyApply \/ KeyDelete
    \/ KeyBeginSave \/ KeyBeginUpdate \/ KeyOther
    \/ SavingEnter \/ SavingEsc \/ SavingChar \/ SavingBackspace
    \/ ConfirmYes \/ ConfirmNo

\* the session with nothing else writing to the snapshot directory
Next == Cli \/ Env \/ Run \/ Tick \/ Keys
Spec == Init /\ [][Next]_vars

\* the same with one-shot commands run beside the open session
\* the session whose user keeps pressing keys while time keeps advancing
SpecLive ==
    /\ Spec
    /\ WF_vars(Tick)
    /\ WF_vars(Keys)
    /\ SF_vars(AdvanceTime)

NextExt == Next \/ Concurrent
SpecExt == Init /\ [][NextExt]_vars

(***************************************************************************)
(* Navigation over directories of up to four snapshots: the session is     *)
(* opened on any directory made of the files of NavNames.                  *)
(***************************************************************************)
NavNames == { <<"c">>, <<"f">>, <<"n">>, <<"o">> }
NavPaths == { [dir |-> "tmucks", file |-> name] : name \in NavNames }

InitNav ==
    /\ fs \in UNION { [S -> Contents] : S \in SUBSET NavPaths }
    /\ live = None
    /\ phase = "shell"
    /\ pc = "tick"
    /\ configs = << >>
    /\ selected = None
    /\ status_message = default_status_message
    /\ status_message_time = None
    /\ input_mode = "Normal"
    /\ input_buffer = << >>
    /\ pending_update_config = None
    /\ call = NoCall

NextNav == Run \/ Tick \/ KeyNext \/ KeyPrevious \/ KeyOther \/ KeyQuit
SpecNav == InitNav /\ [][NextNav]_vars

\* the same sessions with the 'd' key
NextDelete == NextNav \/ KeyDelete
SpecDelete == InitNav /\ [][NextDelete]_vars

(***************************************************************************)
(* Sessions in which the save prompt also receives '/' : the name typed is *)
(* a prefix of a text of PathInputs, which leads out of the directory.     *)
(***************************************************************************)
PathChars == {".", "/", "q"}

\* InputMode::Saving, Char(c), for the texts of PathInputs
SavingCharPath ==
    /\ Reading("Saving")
    /\ pc' = "tick"
    /\ \E c \in PathChars :
          /\ \E t \in PathInputs : IsPrefix(Append(input_buffer, c), t)
          /\ input_buffer' = Append(input_buffer, c)
    /\ call' = NoCall
    /\ UNCHANGED <<fs, live, phase, configs, selected, status_message,
                   status_message_time, input_mode, pending_update_config>>

NextPath ==
    \/ EditLive \/ Run \/ Tick \/ KeyQuit \/ KeyNext \/ KeyDelete
    \/ KeyBeginSave \/ SavingChar \/ SavingCharPath \/ SavingBackspace
    \/ SavingEnter \/ SavingEsc
SpecPath == Init /\ [][NextPath]_vars

(***************************************************************************)
(* Name normalization on its own: the name given to a one-shot command is  *)
(* any text of at most MaxLen characters of NormChars, alone or followed   *)
(* by ".conf"; it is held in input_buffer and the call records the         *)
(* argument of the latest normalization.                                   *)
(***************************************************************************)
MaxLen == 3
NormChars == {".", "c", "f", "q"}

Texts(n) == UNION { [1..k -> NormChars] : k \in 0..n }
NormInputs == Texts(MaxLen) \cup { t \o CONF : t \in Texts(MaxLen) }

InitNorm ==
    /\ input_buffer \in NormInputs
    /\ fs = [p \in {} |-> "v1"]
    /\ live = None
    /\ phase = "shell"
    /\ pc = "tick"
    /\ configs = << >>
    /\ selected = None
    /\ status_message = default_status_message
    /\ status_message_time = None
    /\ input_mode = "Normal"
    /\ pending_update_config = None
    /\ call = NoCall

\* name = ensure_conf_extension(name)
Normalize ==
    /\ phase = "shell"
    /\ input_buffer' = ensure_conf_extension(input_buffer)
    /\ call' = Call("cli", "normalize", input_buffer, Ok)
    /\ UNCHANGED <<fs, live, phase, pc, configs, selected, status_message,
                   status_message_time, input_mode, pending_update_config>>

NextNorm == Normalize
SpecNorm == InitNorm /\ [][NextNorm]_vars

(***************************************************************************)
(* The session of the main.rs revision: its own App (main.rs 53-144) and   *)
(* run_app (main.rs 216-281).  There is no update mode and no notification *)
(* timer; each iteration draws, reads one event and handles it.            *)
(* U+2713 and U+2717 are the check mark and the cross of its messages.     *)
(***************************************************************************)
MaxIndex == 2

MainDefaultMsg ==
    Msg("Use (Up)/(Down) to navigate, Enter to apply config, 's' to save current, 'd' to delete, 'q' to quit",
        NoName, "")
MainAppliedMsg(name) == Msg("(U+2713) Applied config: ", name, "")
MainDeletedMsg(name) == Msg("(U+2713) Deleted config: ", name, "")
MainSavedMsg(name) == Msg("(U+2713) Saved current config as: ", name, "")
MainPromptMsg == Msg("Enter config name (without .conf): ", NoName, "")
\* format!("(U+2717) Error: {}", e)
MainErrorMsg(e) == [err |-> TRUE, pre |-> e.pre, name |-> e.name, post |-> e.post]
MainEmptyNameMsg == [err |-> TRUE, pre |-> "Name cannot be empty", name |-> NoName, post |-> ""]

\* App::next of main.rs, where configs.len() - 1 does not underflow
main_next(cfgs, sel) ==
    IF IsSome(sel)
    THEN (IF Unwrap(sel) >= Len(cfgs) - 1 THEN Some(0) ELSE Some(Unwrap(sel) + 1))
    ELSE Some(0)

\* App::previous of main.rs, where configs.len() - 1 does not underflow
main_previous(cfgs, sel) ==
    IF IsSome(sel)
    THEN (IF Unwrap(sel) = 0 THEN Some(Len(cfgs) - 1) ELSE Some(Unwrap(sel) - 1))
    ELSE Some(0)

\* main.rs run_tui up to the loop: App::new
RunMain ==
    /\ phase = "shell"
    /\ phase' = "main"
    /\ pc' = "read"
    /\ configs' = read_configs(fs)
    /\ selected' = SelectFirst(read_configs(fs), None)
    /\ status_message' = MainDefaultMsg
    /\ status_message_time' = None
    /\ input_mode' = "Normal"
    /\ input_buffer' = << >>
    /\ pending_update_config' = None
    /\ call' = NoCall
    /\ UNCHANGED <<fs, live>>

MainReading(mode) == phase = "main" /\ input_mode = mode

\* the thread panics: the process ends without leaving the loop normally
Panic ==
    /\ phase' = "panicked"
    /\ call' = NoCall
    /\ UNCHANGED <<fs, live, pc, appVars>>

\* InputMode::Normal, 'q'
MainQuit ==
    /\ MainReading("Normal")
    /\ phase' = "shell"
    /\ pc' = "tick"
    /\ NoApp
    /\ call' = NoCall
    /\ UNCHANGED <<fs, live>>

\* InputMode::Normal, Down: App::next.  With a selection on an empty list
\* `configs.len() - 1` underflows: a panic where overflow is checked (debug
\* builds); elsewhere it wraps to usize::MAX, the test `i >= usize::MAX` fails
\* and the index grows (followed up to MaxIndex).
MainDown ==
    /\ MainReading("Normal")
    /\ IF IsSome(selected) /\ configs = << >>
       THEN \/ Panic
            \/ /\ Unwrap(selected) + 1 <= MaxIndex
               /\ selected' = Some(Unwrap(selected) + 1)
               /\ call' = NoCall
               /\ UNCHANGED <<fs, live, phase, pc, configs, status_message,
                              status_message_time, input_mode, input_buffer,
                              pending_update_config>>
       ELSE /\ selected' = main_next(configs, selected)
            /\ call' = NoCall
            /\ UNCHANGED <<fs, live, phase, pc, configs, status_message,
                           status_message_time, input_mode, input_buffer,
                           pending_update_config>>

\* InputMode::Normal, Up: App::previous.  With index 0 selected on an empty
\* list `configs.len() - 1` underflows: a panic where overflow is checked;
\* elsewhere the selection becomes usize::MAX, which is beyond MaxIndex and
\* not followed.
MainUp ==
    /\ MainReading("Normal")
    /\ IF selected = Some(0) /\ configs = << >>
       THEN Panic
       ELSE /\ selected' = main_previous(configs, selected)
            /\ call' = NoCall
            /\ UNCHANGED <<fs, live, phase, pc, configs, status_message,
                           status_message_time, input_mode, input_buffer,
                           pending_update_config>>

\* InputMode::Normal, Enter: App::apply_config of main.rs
MainEnter ==
    /\ MainReading("Normal")
    /\ IF IsSome(SelectedName)
       THEN \E reload \in ReloadOutcomes :
            LET config_name == Unwrap(SelectedName)
                out == apply_config(fs, live, config_name, reload)
            IN /\ fs' = out.fs
               /\ live' = out.live
               /\ call' = ApplyCall("main", fs, config_name, out.res, reload)
               /\ status_message' = IF out.res.ok
                                    THEN MainAppliedMsg(config_name)
                                    ELSE MainErrorMsg(out.res)
       ELSE /\ call' = NoCall
            /\ UNCHANGED <<fs, live, status_message>>
    /\ UNCHANGED <<phase, pc, configs, selected, status_message_time,
                   input_mode, input_buffer, pending_update_config>>

\* InputMode::Normal, 'd': App::delete_config of main.rs
MainDelete ==
    /\ MainReading("Normal")
    /\ IF IsSome(SelectedName)
       THEN LET config_name == Unwrap(SelectedName)
                out == delete_config(fs, live, config_name)
            IN /\ fs' = out.fs
               /\ live' = out.live
               /\ call' = Call("main", "delete", config_name, out.res)
               /\ IF out.res.ok
                  THEN /\ status_message' = MainDeletedMsg(config_name)
                       /\ configs' = read_configs(out.fs)
                       /\ selected' = SelectAfterDelete(read_configs(out.fs), selected)
                  ELSE /\ status_message' = MainErrorMsg(out.res)
                       /\ UNCHANGED <<configs, selected>>
       ELSE /\ call' = NoCall
            /\ UNCHANGED <<fs, live, status_message, configs, selected>>
    /\ UNCHANGED <<phase, pc, status_message_time, input_mode, input_buffer,
                   pending_update_config>>

\* InputMode::Normal, 's'
MainBeginSave ==
    /\ MainReading("Normal")
    /\ input_mode' = "Saving"
    /\ input_buffer' = << >>
    /\ status_message' = MainPromptMsg
    /\ call' = NoCall
    /\ UNCHANGED <<fs, live, phase, pc, configs, selected,
                   status_message_time, pending_update_config>>

\* InputMode::Saving, Enter: App::save_current_config of main.rs
MainSavingEnter ==
    /\ MainReading("Saving")
    /\ IF Trim(input_buffer) = << >>
       THEN /\ status_message' = MainEmptyNameMsg
            /\ call' = NoCall
            /\ UNCHANGED <<fs, live, configs, selected>>
       ELSE LET name == IF EndsWith(input_buffer, CONF)
                        THEN input_buffer
                        ELSE input_buffer \o CONF
                out == save_current_config(fs, live, name)
            IN /\ Fits(out.fs)
               /\ fs' = out.fs
               /\ live' = out.live
               /\ call' = Call("main", "save", name, out.res)
               /\ IF out.res.ok
                  THEN /\ status_message' = MainSavedMsg(name)
                       /\ configs' = read_configs(out.fs)
                       /\ selected' = SelectFirst(read_configs(out.fs), selected)
                  ELSE /\ status_message' = MainErrorMsg(out.res)
                       /\ UNCHANGED <<configs, selected>>
    /\ input_mode' = "Normal"
    /\ input_buffer' = << >>
    /\ UNCHANGED <<phase, pc, status_message_time, pending_update_config>>

\* InputMode::Saving, Esc
MainSavingEsc ==
    /\ MainReading("Saving")
    /\ input_mode' = "Normal"
    /\ input_buffer' = << >>
    /\ status_message' = MainDefaultMsg
    /\ call' = NoCall
    /\ UNCHANGED <<fs, live, phase, pc, configs, selected,
                   status_message_time, pending_update_config>>

\* InputMode::Saving, Char(c)
MainSavingChar ==
    /\ MainReading("Saving")
    /\ \E c \in Chars :
          /\ Typable(Append(input_buffer, c))
          /\ input_buffer' = Append(input_buffer, c)
    /\ call' = NoCall
    /\ UNCHANGED <<fs, live, phase, pc, configs, selected, status_message,
                   status_message_time, input_mode, pending_update_config>>

\* InputMode::Saving, Backspace
MainSavingBackspace ==
    /\ MainReading("Saving")
    /\ input_buffer' = Pop(input_buffer)
    /\ call' = NoCall
    /\ UNCHANGED <<fs, live, phase, pc, configs, selected, status_message,
                   status_message_time, input_mode, pending_update_config>>

\* a key no arm of the current mode's match handles, or an event that is no key
MainOther ==
    /\ phase = "main"
    /\ call' = NoCall
    /\ UNCHANGED <<fs, live, phase, pc, appVars>>

MainKeys ==
    \/ MainQuit \/ MainDown \/ MainUp \/ MainEnter \/ MainDelete
    \/ MainBeginSave \/ MainOther
    \/ MainSavingEnter \/ MainSavingEsc \/ MainSavingChar \/ MainSavingBackspace

\* the main.rs revision: its one-shot commands (no update) and its session
NextMain ==
    \/ CliApply \/ CliSave \/ CliDelete
    \/ EditLive \/ RemoveLive
    \/ RunMain \/ MainKeys
SpecMain == Init /\ [][NextMain]_vars

(***************************************************************************)
(* Properties                                                              *)
(***************************************************************************)

\* C1: in every state of the session the selection is None or an index
\* strictly smaller than the length of the cached snapshot list.
C1_SelectionInBounds ==
    IsSome(selected) => (Unwrap(selected) >= 0 /\ Unwrap(selected) < Len(configs))

\* the last entry of a list of several was deleted and the selection was
\* clamped to the new last index
C1_Witness ==
    /\ phase = "tui"
    /\ call.by = "tui" /\ call.op = "delete" /\ call.res.ok
    /\ configs # << >>
    /\ \A i \in 1..Len(configs) : StrLess(configs[i], call.name)
    /\ selected = Some(Len(configs) - 1)

\* C2: pending_update_config is Some exactly when the mode is UpdateConfirm,
\* after every transition, a confirm-yes whose update fails included.
C2_PendingIffConfirming ==
    IsSome(pending_update_config) <=> input_mode = "UpdateConfirm"

\* C3: when the store call of a session transition fails, the loop goes on,
\* the notification is an error-prefixed message and the mode is Normal.
C3_StoreErrorRecovered ==
    (call.by = "tui" /\ ~call.res.ok) =>
        /\ phase = "tui"
        /\ status_message.err
        /\ input_mode = "Normal"

\* C4: in every state of the session (nothing else writing to the
\* directory) the selection is None exactly when the cached list is empty.
C4_NoneIffEmpty == (selected = None) <=> (configs = << >>)

\* the only snapshot was deleted from within the session
C4_Witness ==
    /\ phase = "tui"
    /\ call.by = "tui" /\ call.op = "delete" /\ call.res.ok
    /\ configs = << >>
    /\ selected = None

\* C5 as stated: save(n) of a name that already has a snapshot fails with
\* AlreadyExists and leaves every snapshot as it was.
C5_SaveExistingIsAlreadyExists ==
    [][(call'.op = "save" /\ Exists(fs, Join(call'.name))) =>
          (IsAlreadyExists(call'.res) /\ fs' = fs)]_vars

\* C5 as amended: save(n) of a name that already has a snapshot fails and
\* leaves every snapshot (and the live file) as it was, whatever the live
\* file holds by now; the error is AlreadyExists when the live file
\* exists and the missing-live-file NotFound when it does not.
C5_SaveNeverOverwrites ==
    [][(call'.op = "save" /\ Exists(fs, Join(call'.name))) =>
          /\ ~call'.res.ok
          /\ fs' = fs /\ live' = live
          /\ IF IsSome(live)
             THEN IsAlreadyExists(call'.res)
             ELSE call'.res = ErrNoTmuxConfig /\ IsNotFound(call'.res)]_vars

\* a save was refused with AlreadyExists while the live file differs from
\* the snapshot of that name
C5_Witness ==
    /\ call.op = "save" /\ IsAlreadyExists(call.res)
    /\ Exists(fs, Join(call.name))
    /\ IsSome(live) /\ fs[Join(call.name)] # Unwrap(live)

\* C6: update(n) of a name that has no snapshot file fails with NotFound
\* and leaves the snapshots and the live file unchanged.
C6_UpdateNeverCreates ==
    [][(call'.op = "update" /\ ~Exists(fs, Join(call'.name))) =>
          /\ ~call'.res.ok /\ IsNotFound(call'.res)
          /\ fs' = fs /\ live' = live]_vars

\* an update of a name without a snapshot was refused while the live file
\* exists
C6_Witness ==
    /\ call.op = "update" /\ call.res = ErrDoesNotExist(call.name)
    /\ ~Exists(fs, Join(call.name))
    /\ IsSome(live)

\* C7: after a successful apply(n) the live file holds the content of
\* snapshot n, and no snapshot has changed.
C7_ApplyCopiesSnapshot ==
    [][(call'.op = "apply" /\ call'.res.ok) =>
          /\ live' = Some(fs[Join(call'.name)])
          /\ fs' = fs]_vars

\* an apply succeeded while another snapshot holds a different content
C7_Witness ==
    /\ call.op = "apply" /\ call.res.ok
    /\ live = Some(fs[Join(call.name)])
    /\ \E p \in DOMAIN fs : fs[p] # fs[Join(call.name)]

\* next, resp. previous, applied k times
RECURSIVE NextTimes(_, _, _)
NextTimes(cfgs, sel, k) ==
    IF k = 0 THEN sel ELSE NextTimes(cfgs, next(cfgs, sel), k - 1)

RECURSIVE PreviousTimes(_, _, _)
PreviousTimes(cfgs, sel, k) ==
    IF k = 0 THEN sel ELSE PreviousTimes(cfgs, previous(cfgs, sel), k - 1)

\* C8: on every non-empty list, from every index of it, select-next applied
\* len times comes back to the index it started from, and so does
\* select-previous.
C8_WrapAround ==
    (phase = "tui" /\ configs # << >>) =>
        \A i \in 0..(Len(configs) - 1) :
            /\ NextTimes(configs, Some(i), Len(configs)) = Some(i)
            /\ PreviousTimes(configs, Some(i), Len(configs)) = Some(i)

\* the session has navigated to the last of at least three entries, from
\* where select-next wraps
C8_Witness ==
    /\ phase = "tui"
    /\ Len(configs) >= 3
    /\ selected = Some(Len(configs) - 1)
    /\ next(configs, selected) = Some(0)

\* C9: on an empty list select-next and select-previous leave the selection
\* at None, change nothing else and do not panic.  Stated of the sessions of
\* both revisions.
C9_EmptyListNavigation ==
    [][((KeyNext \/ KeyPrevious \/ MainDown \/ MainUp) /\ configs = << >>) =>
          /\ selected = None /\ selected' = None
          /\ phase' = phase
          /\ UNCHANGED <<fs, live, appVars>>]_vars

\* C9 for the session of app.rs alone, where it holds
C9_EmptyListNavigationApp ==
    [][((KeyNext \/ KeyPrevious) /\ configs = << >>) =>
          /\ selected = None /\ selected' = None
          /\ phase' = phase
          /\ UNCHANGED <<fs, live, appVars>>]_vars

\* C10: a check (the update_status_message of a loop iteration) of a
\* notification whose timestamp is younger than 5 seconds leaves text and
\* timestamp alone; a check at 5 seconds or more puts the default text
\* back and clears the timestamp.
C10_ExpiryAtFiveSeconds ==
    [][(phase = "tui" /\ pc = "tick" /\ pc' = "read" /\ IsSome(status_message_time)) =>
          IF Elapsed(Unwrap(status_message_time)) >= StatusTimeout
          THEN status_message' = default_status_message /\ status_message_time' = None
          ELSE status_message' = status_message
               /\ status_message_time' = status_message_time]_vars

\* a custom notification is about to be checked at exactly 5 seconds
C10_Witness ==
    /\ phase = "tui" /\ pc = "tick"
    /\ status_message # default_status_message
    /\ IsSome(status_message_time)
    /\ Elapsed(Unwrap(status_message_time)) = StatusTimeout


\* the list v without its entry at 0-based index i
WithoutIndex(v, i) == SubSeq(v, 1, i) \o SubSeq(v, i + 2, Len(v))

\* strictly increasing in the order of String
StrictlyIncreasing(v) ==
    \A i, j \in 1..Len(v) : i < j => StrLess(v[i], v[j])

\* C11: a successful delete of the entry selected at index i leaves the
\* cached list equal to the previous list without that entry, still sorted,
\* and the selection None if the new list is empty, else Some(min(i, new
\* length - 1)); deleting an entry that is not the last one keeps the index,
\* which then points at the former successor.
C11_DeleteSelected ==
    [][(KeyDelete /\ call'.op = "delete" /\ call'.res.ok) =>
          LET i == Unwrap(selected)
              new_len == Len(configs) - 1
          IN /\ call'.name = configs[i + 1]
             /\ configs' = WithoutIndex(configs, i)
             /\ StrictlyIncreasing(configs')
             /\ selected' = IF new_len = 0 THEN None
                            ELSE IF i < new_len - 1 THEN Some(i)
                            ELSE Some(new_len - 1)
             /\ (i < new_len =>
                    /\ selected' = Some(i)
                    /\ configs'[i + 1] = configs[i + 2])]_vars

\* three or more snapshots, the first one deleted: the selection stays at
\* index 0, on the former second entry
C11_Witness ==
    /\ call.by = "tui" /\ call.op = "delete" /\ call.res.ok
    /\ Len(configs) >= 2
    /\ selected = Some(0)
    /\ StrLess(call.name, configs[1])

\* the last of several snapshots deleted: the selection is clamped
C11_WitnessClamped ==
    /\ call.by = "tui" /\ call.op = "delete" /\ call.res.ok
    /\ Len(configs) >= 2
    /\ selected = Some(Len(configs) - 1)
    /\ StrLess(configs[Len(configs)], call.name)

\* the name the save prompt makes of its buffer: ".conf" appended if absent
NormalizedName(buffer) ==
    IF EndsWith(buffer, CONF) THEN buffer ELSE buffer \o CONF

\* the precondition of C12: the buffer trims to non-empty, no snapshot and no
\* file has the normalized name, the live file is present
CanSaveBuffer ==
    /\ Trim(input_buffer) # << >>
    /\ NormalizedName(input_buffer) \notin DirNames(fs)
    /\ ~Exists(fs, Join(NormalizedName(input_buffer)))
    /\ IsSome(live)

\* the effect C12 states for the confirmed save of the buffer
SavedBuffer ==
    LET name == NormalizedName(input_buffer)
        path == [dir |-> "tmucks", file |-> name]
    IN /\ DirNames(fs') = DirNames(fs) \cup {name}
       /\ Exists(fs', path) /\ fs'[path] = Unwrap(live)
       /\ \A p \in DOMAIN fs : Exists(fs', p) /\ fs'[p] = fs[p]
       /\ live' = live
       /\ selected' = Some(0)
       /\ input_mode' = "Normal"
       /\ input_buffer' = << >>

\* C12: Enter in the save prompt with a buffer that trims to non-empty,
\* whose normalized name does not exist yet, and with the live file present:
\* the store then holds the previous snapshots plus that name, the new
\* snapshot has the content of the live file, the selection is Some(0), the
\* mode is Normal and the buffer is empty.
C12_ConfirmSave ==
    [][(SavingEnter /\ CanSaveBuffer) => SavedBuffer]_vars

\* C12 for the buffers without '/'
C12_ConfirmSavePlain ==
    [][(SavingEnter /\ CanSaveBuffer /\ ~HasSlash(input_buffer))
          => SavedBuffer]_vars

\* a plain name saved from the prompt next to an older snapshot
C12_WitnessPlain ==
    /\ call.by = "tui" /\ call.op = "save" /\ call.res.ok
    /\ ~HasSlash(call.name)
    /\ Len(configs) = 2
    /\ selected = Some(0)

\* C13: Esc in the save prompt, and 'n', 'N' or Esc in the update
\* confirmation, change no file (snapshots, their contents, the live file),
\* leave the cached list and the selection as they were, and return the mode
\* to Normal.
C13_CancelChangesNothing ==
    [][(SavingEsc \/ ConfirmNo) =>
          /\ fs' = fs /\ live' = live
          /\ configs' = configs /\ selected' = selected
          /\ input_mode' = "Normal"]_vars

\* the session just after Esc in the save prompt, over a non-empty directory:
\* only that key leaves the default text with a timestamp
C13_Witness ==
    /\ phase = "tui" /\ pc = "tick" /\ input_mode = "Normal"
    /\ call = NoCall
    /\ status_message = default_status_message
    /\ IsSome(status_message_time)
    /\ configs # << >> /\ IsSome(selected) /\ IsSome(live)

\* C14: every cancel (Esc in the save prompt; 'n', 'N', Esc in the update
\* confirmation) sets the notification text to the default message and the
\* timestamp to None, whatever they were before.
C14_CancelClearsNotification ==
    [][(SavingEsc \/ ConfirmNo) =>
          /\ status_message' = default_status_message
          /\ status_message_time' = None]_vars

\* C14 for the cancel of the update confirmation alone
C14_CancelUpdateClears ==
    [][ConfirmNo =>
          /\ status_message' = default_status_message
          /\ status_message_time' = None]_vars

\* C14 for the text alone
C14_CancelRestoresDefaultText ==
    [][(SavingEsc \/ ConfirmNo) =>
          status_message' = default_status_message]_vars

\* C15: while the session runs and nothing else writes to the directory, the
\* cached list is the sorted list of the names of the files now in the
\* directory; it is read again after every successful delete and save.
C15_CacheIsListing ==
    phase = "tui" =>
        /\ {configs[i] : i \in 1..Len(configs)} = DirNames(fs)
        /\ StrictlyIncreasing(configs)

\* a snapshot deleted in the session while another one remains
C15_Witness ==
    /\ phase = "tui"
    /\ call.by = "tui" /\ call.op = "delete" /\ call.res.ok
    /\ configs # << >>

\* C16: the cached list is in strictly increasing order (sorted, no name
\* twice) after the session opens and after every save, update and delete.
C16_StrictlyIncreasing == StrictlyIncreasing(configs)

\* a name saved in the session that sorts before an older snapshot
C16_Witness ==
    /\ call.by = "tui" /\ call.op = "save" /\ call.res.ok
    /\ Len(configs) = 2
    /\ configs[1] = call.name

\* C17: the loop ends only from the Normal mode; 'q' in the save prompt is
\* appended to the buffer, 'q' in the update confirmation is ignored, and
\* the loop goes on in both cases.
C17_QuitOnlyInNormal ==
    [][/\ (phase = "tui" /\ phase' # "tui") => input_mode = "Normal"
       /\ (SavingChar /\ input_buffer' = Append(input_buffer, "q")) =>
             /\ phase' = "tui" /\ input_mode' = "Saving"
       /\ (KeyOther /\ input_mode = "UpdateConfirm") =>
             /\ phase' = "tui"
             /\ UNCHANGED <<fs, live, appVars>>]_vars

\* 'q' typed in the save prompt: the session goes on with "q" in the buffer
C17_Witness ==
    /\ phase = "tui" /\ pc = "tick"
    /\ input_mode = "Saving"
    /\ input_buffer = <<"q">>

\* C18: 'u' with a selection stores the name at the selected index as the
\* pending target and enters UpdateConfirm, touching neither the files nor
\* the notification; 'u' without a selection sets a failure notification,
\* leaves the pending target None and stays in Normal.
C18_BeginUpdate ==
    [][KeyBeginUpdate =>
          /\ fs' = fs /\ live' = live /\ configs' = configs
          /\ IF IsSome(selected)
             THEN /\ pending_update_config' = Some(configs[Unwrap(selected) + 1])
                  /\ input_mode' = "UpdateConfirm"
                  /\ UNCHANGED <<status_message, status_message_time>>
             ELSE /\ status_message' = NoSelectionMsg
                  /\ status_message' # default_status_message
                  /\ status_message_time' = Some(InstantNow)
                  /\ pending_update_config' = None
                  /\ input_mode' = "Normal"]_vars

\* 'u' on the second of two snapshots, under the notification of an earlier
\* action
C18_Witness ==
    /\ phase = "tui" /\ pc = "tick"
    /\ input_mode = "UpdateConfirm"
    /\ selected = Some(1)
    /\ Len(configs) = 2
    /\ pending_update_config = Some(configs[2])
    /\ status_message # default_status_message

\* 'u' on the empty list
C18_WitnessNoSelection ==
    /\ phase = "tui" /\ pc = "tick"
    /\ input_mode = "Normal"
    /\ selected = None
    /\ status_message = NoSelectionMsg
    /\ pending_update_config = None

\* C19: apply(n) of a name that has no snapshot file fails with NotFound and
\* leaves the live file and every snapshot unchanged.
C19_ApplyMissingIsNotFound ==
    [][(call'.op = "apply" /\ ~Exists(fs, Join(call'.name))) =>
          /\ ~call'.res.ok /\ IsNotFound(call'.res)
          /\ call'.res = ErrConfigNotFound(call'.name)
          /\ fs' = fs /\ live' = live]_vars

\* apply of a missing name beside an existing snapshot and a live file
C19_Witness ==
    /\ call.op = "apply"
    /\ call.res = ErrConfigNotFound(call.name)
    /\ IsSome(live)
    /\ DirNames(fs) # {}

\* C20: apply of an existing snapshot succeeds whether the reload succeeded
\* or failed, and in the session it then shows the success notification,
\* never an error.
C20_ReloadFailureSwallowed ==
    [][(call'.op = "apply" /\ Exists(fs, Join(call'.name))) =>
          /\ call'.reload \in ReloadOutcomes
          /\ call'.res.ok
          /\ live' = Some(fs[Join(call'.name)])
          /\ call'.by = "tui" =>
                /\ ~status_message'.err
                /\ status_message' = AppliedMsg(call'.name)]_vars

\* Enter on a snapshot while the reload fails
C20_Witness ==
    /\ call.by = "tui" /\ call.op = "apply"
    /\ call.reload = "failed"
    /\ call.res.ok
    /\ status_message = AppliedMsg(call.name)

\* a one-shot apply while the reload fails
C20_WitnessCli ==
    /\ call.by = "cli" /\ call.op = "apply"
    /\ call.reload = "failed"
    /\ call.res.ok

\* the handlers that set a notification other than the default text: a store
\* call of the session (success or error), Enter in the save prompt, 'u'
\* without a selection, and the prompt of 's'
SetsNotificationByCall ==
    \/ call'.by = "tui"
    \/ SavingEnter
    \/ (KeyBeginUpdate /\ ~IsSome(selected))

\* C21: every step that sets a notification other than the default text
\* (success or error of apply, delete, save, update, the failure of 'u', and
\* the prompt of 's') also sets the timestamp to the current time.
C21_NotificationIsTimestamped ==
    [][(SetsNotificationByCall \/ KeyBeginSave) =>
          /\ status_message' # default_status_message
          /\ status_message_time' = Some(InstantNow)]_vars

\* C21 without the prompt of 's'
C21_SetStatusMessageIsTimestamped ==
    [][SetsNotificationByCall =>
          /\ status_message' # default_status_message
          /\ status_message_time' = Some(InstantNow)]_vars

\* C22: while run_app waits for an event the text stays and the timestamp
\* stays the same instant however long the wait; the top of the loop
\* replaces a notification of five seconds or more by the default and
\* clears the timestamp, and leaves a younger one alone, so nothing
\* expired is shown when the wait for the next event begins.
C22_LazyExpiry ==
    [][/\ (phase = "tui" /\ pc = "read" /\ pc' = "read") =>
             /\ status_message' = status_message
             /\ \/ status_message_time' = status_message_time
                \/ /\ IsSome(status_message_time)
                   /\ status_message_time'
                        = Some(Unwrap(status_message_time) + 1)
       /\ Tick =>
             IF /\ IsSome(status_message_time)
                /\ Elapsed(Unwrap(status_message_time)) >= StatusTimeout
             THEN /\ status_message' = default_status_message
                  /\ status_message_time' = None
             ELSE UNCHANGED <<status_message, status_message_time>>
       /\ (phase' = "tui" /\ pc = "tick" /\ pc' = "read") =>
             \/ status_message_time' = None
             \/ Elapsed(Unwrap(status_message_time')) < StatusTimeout]_vars

\* a notification past the five seconds still shown while run_app waits
C22_Witness ==
    /\ phase = "tui" /\ pc = "read"
    /\ IsSome(status_message_time)
    /\ Elapsed(Unwrap(status_message_time)) >= StatusTimeout
    /\ status_message # default_status_message

\* C23: Enter in the save prompt when the save cannot succeed (the name
\* exists, or the live file is missing): the save fails, the mode is Normal,
\* the buffer is empty, an error notification is set, the cached list and
\* the selection are as before and no file has changed.
C23_FailedSaveConfirm ==
    [][(/\ SavingEnter
        /\ call'.op = "save"
        /\ \/ ~call'.res.ok
           \/ ~IsSome(live)
           \/ Exists(fs, Join(NormalizedName(input_buffer)))) =>
          /\ ~call'.res.ok
          /\ input_mode' = "Normal"
          /\ input_buffer' = << >>
          /\ status_message' = ErrorMsg(call'.res)
          /\ status_message'.err
          /\ configs' = configs /\ selected' = selected
          /\ fs' = fs /\ live' = live]_vars

\* a save from the prompt refused because the name exists, the snapshot
\* holding another content than the live file
C23_Witness ==
    /\ call.by = "tui" /\ call.op = "save"
    /\ call.res = ErrAlreadyExists(call.name)
    /\ input_mode = "Normal" /\ input_buffer = << >>
    /\ IsSome(live)
    /\ fs[Join(call.name)] # Unwrap(live)

\* a save from the prompt refused because the live file is missing
C23_WitnessNoLive ==
    /\ call.by = "tui" /\ call.op = "save"
    /\ call.res = ErrNoTmuxConfig
    /\ configs # << >>

\* only whitespace, or nothing
Blank(s) == \A i \in 1..Len(s) : s[i] = " "

\* C24: Enter in the save prompt on an empty or all-whitespace buffer calls
\* no store operation, changes no file, leaves the cached list and the
\* selection, clears the buffer, sets an error notification and returns to
\* Normal.
C24_BlankNameRefused ==
    [][(SavingEnter /\ Blank(input_buffer)) =>
          /\ call' = NoCall
          /\ fs' = fs /\ live' = live
          /\ configs' = configs /\ selected' = selected
          /\ input_buffer' = << >>
          /\ status_message' = EmptyNameMsg
          /\ status_message'.err
          /\ input_mode' = "Normal"]_vars

\* the refusal shown over a non-empty list, the live file present
C24_Witness ==
    /\ phase = "tui" /\ pc = "tick"
    /\ status_message = EmptyNameMsg
    /\ input_mode = "Normal" /\ input_buffer = << >>
    /\ configs # << >> /\ IsSome(live)

\* C25: without a live file, save and update both fail with the NotFound of
\* the live file and change nothing, also when the name exists (save) and
\* when it does not (update).
C25_MissingLiveFirst ==
    [][(call'.op \in {"save", "update"} /\ ~IsSome(live)) =>
          /\ call'.res = ErrNoTmuxConfig
          /\ IsNotFound(call'.res)
          /\ fs' = fs /\ live' = live]_vars

\* update of an absent name without a live file
C25_Witness ==
    /\ call.op = "update"
    /\ call.res = ErrNoTmuxConfig
    /\ ~Exists(fs, Join(call.name))

\* save of an existing name without a live file
C25_WitnessSave ==
    /\ call.op = "save"
    /\ call.res = ErrNoTmuxConfig
    /\ Exists(fs, Join(call.name))

\* C26: delete(n) of an existing snapshot removes that file and no other,
\* keeps the content of the others and the live file; delete(n) of a name
\* without a file fails with NotFound and changes nothing.
C26_DeleteExactlyOne ==
    [][call'.op = "delete" =>
          LET path == Join(call'.name) IN
          IF Exists(fs, path)
          THEN /\ call'.res.ok
               /\ DOMAIN fs' = (DOMAIN fs) \ {path}
               /\ \A p \in DOMAIN fs' : fs'[p] = fs[p]
               /\ live' = live
          ELSE /\ ~call'.res.ok /\ IsNotFound(call'.res)
               /\ fs' = fs /\ live' = live]_vars

\* one of two snapshots deleted, the live file present
C26_Witness ==
    /\ call.op = "delete" /\ call.res.ok
    /\ DirNames(fs) # {}
    /\ call.name \notin DirNames(fs)
    /\ IsSome(live)

\* delete of a name without a file, beside an existing snapshot
C26_WitnessMissing ==
    /\ call.op = "delete" /\ ~call.res.ok
    /\ DirNames(fs) # {}

\* the paths whose file differs between two filesystems
Changed(f, g) ==
    {p \in (DOMAIN f) \cup (DOMAIN g) :
        ~(p \in DOMAIN f /\ p \in DOMAIN g /\ f[p] = g[p])}

\* C27: a store operation, whatever name it is given, creates, overwrites or
\* removes at most one file, which lies directly inside the snapshot
\* directory, plus the live file for apply; it touches no other file.
C27_OnlyInsideTheDirectory ==
    [][call'.op \in {"apply", "save", "update", "delete"} =>
          /\ Cardinality(Changed(fs, fs')) <= 1
          /\ \A p \in Changed(fs, fs') :
                p.dir = "tmucks" /\ ~HasSlash(p.file)
          /\ call'.op # "apply" => live' = live]_vars

\* C28: ensure_conf_extension returns a name that ends with ".conf"
\* unchanged and any other name with ".conf" appended; its result ends with
\* ".conf", and normalizing the result again gives the result.
C28_Normalization ==
    [][Normalize =>
          LET name == input_buffer
              result == input_buffer'
              Suffixed(t) ==
                  /\ Len(t) >= Len(CONF)
                  /\ SubSeq(t, Len(t) - Len(CONF) + 1, Len(t)) = CONF
          IN /\ Suffixed(name) => result = name
             /\ ~Suffixed(name) => result = name \o CONF
             /\ Suffixed(result)
             /\ ensure_conf_extension(result) = result]_vars

\* a name without the suffix, normalized
C28_Witness ==
    /\ call.op = "normalize"
    /\ Len(call.name) >= 2
    /\ ~EndsWith(call.name, CONF)
    /\ input_buffer = call.name \o CONF

\* a name with the suffix, normalized
C28_WitnessSuffixed ==
    /\ call.op = "normalize"
    /\ Len(call.name) > Len(CONF)
    /\ EndsWith(call.name, CONF)
    /\ input_buffer = call.name

\* what the keys of C29 leave alone
ModalFrame ==
    UNCHANGED <<fs, live, phase, configs, selected, input_mode,
                status_message, status_message_time, pending_update_config>>

\* C29: in the save prompt a character key appends one character to the
\* buffer, Backspace removes the last one (nothing on an empty buffer) and
\* any other key but Enter and Esc changes nothing; in the update
\* confirmation any key but y, Y, n, N, Esc changes nothing; none of these
\* keys changes the selection, the cached list, the files or the mode.
C29_ModalInput ==
    [][/\ SavingChar =>
             /\ \E c \in Chars : input_buffer' = Append(input_buffer, c)
             /\ ModalFrame
       /\ SavingBackspace =>
             /\ input_buffer' = IF input_buffer = << >> THEN << >>
                                ELSE SubSeq(input_buffer, 1, Len(input_buffer) - 1)
             /\ ModalFrame
       /\ (KeyOther /\ input_mode \in {"Saving", "UpdateConfirm"}) =>
             /\ input_buffer' = input_buffer
             /\ ModalFrame]_vars

\* the save prompt with several characters typed
C29_Witness ==
    /\ phase = "tui" /\ pc = "tick"
    /\ input_mode = "Saving"
    /\ Len(input_buffer) >= 2
    /\ configs # << >>

\* C30: a successful 'y' overwrites the snapshot that was selected at 'u',
\* and only that one, with the content the live file has now; the names,
\* the cached list, the selection, the live file and the other snapshots
\* stay; between 'u' and 'y' the selection and the list cannot change.
C30_ConfirmedUpdate ==
    [][/\ (ConfirmYes /\ call'.op = "update" /\ call'.res.ok) =>
             LET name == configs[Unwrap(selected) + 1]
                 path == [dir |-> "tmucks", file |-> name]
             IN /\ pending_update_config = Some(name)
                /\ call'.name = name
                /\ DOMAIN fs' = DOMAIN fs
                /\ fs'[path] = Unwrap(live)
                /\ \A p \in (DOMAIN fs) \ {path} : fs'[p] = fs[p]
                /\ live' = live
                /\ configs' = configs /\ selected' = selected
       /\ (KeyBeginUpdate /\ IsSome(selected)) =>
             pending_update_config' = Some(configs[Unwrap(selected) + 1])
       /\ (phase = "tui" /\ input_mode = "UpdateConfirm") =>
             /\ configs' = configs /\ selected' = selected
             /\ \/ pending_update_config' = pending_update_config
                \/ pending_update_config' = None]_vars

\* the second of two snapshots updated from a live file whose content the
\* first one does not have
C30_Witness ==
    /\ call.by = "tui" /\ call.op = "update" /\ call.res.ok
    /\ Len(configs) = 2
    /\ selected = Some(1)
    /\ call.name = configs[2]
    /\ fs[Join(configs[2])] = Unwrap(live)
    /\ fs[Join(configs[1])] # Unwrap(live)

\* C31: the name buffer is empty in every state whose mode is not Saving:
\* 's' clears it, Enter and Esc in the save prompt clear it, and no key of
\* another mode writes to it.
C31_BufferOnlyWhileSaving ==
    input_mode # "Saving" => input_buffer = << >>

\* back in Normal after a non-empty name was typed and confirmed
C31_Witness ==
    /\ phase = "tui" /\ pc = "tick"
    /\ call.by = "tui" /\ call.op = "save"
    /\ input_mode = "Normal"
    /\ input_buffer = << >>

\* C32: a notification set while an earlier one has not expired restarts the
\* timer (the timestamp becomes the current time), and the top of the loop
\* reverts a text only when its timestamp is five seconds old: the new text
\* outlives the expiry of the earlier one.
C32_TimerRestarts ==
    [][/\ (/\ SetsNotificationByCall \/ KeyBeginSave
           /\ IsSome(status_message_time)
           /\ ~Expired(Unwrap(status_message_time))) =>
             status_message_time' = Some(InstantNow)
       /\ (Tick /\ status_message # default_status_message
                /\ status_message' = default_status_message) =>
             /\ IsSome(status_message_time)
             /\ Elapsed(Unwrap(status_message_time)) >= StatusTimeout]_vars

\* C32 for the notifications set through set_status_message
C32_SetStatusMessageRestarts ==
    [][/\ (/\ SetsNotificationByCall
           /\ IsSome(status_message_time)
           /\ ~Expired(Unwrap(status_message_time))) =>
             status_message_time' = Some(InstantNow)
       /\ (Tick /\ status_message # default_status_message
                /\ status_message' = default_status_message) =>
             /\ IsSome(status_message_time)
             /\ Elapsed(Unwrap(status_message_time)) >= StatusTimeout]_vars

\* C33: in the Normal mode a text other than the default always has a
\* timestamp, so the top of the loop reverts it once five seconds have passed.
C33_CustomTextIsTimed ==
    (phase = "tui" /\ input_mode = "Normal"
        /\ status_message # default_status_message)
    => IsSome(status_message_time)

\* a notification of some seconds shown in the Normal mode
C33_Witness ==
    /\ phase = "tui" /\ pc = "read"
    /\ input_mode = "Normal"
    /\ status_message # default_status_message
    /\ IsSome(status_message_time)
    /\ Elapsed(Unwrap(status_message_time)) >= 1

\* C33, its consequence: with keys arriving and time advancing, a text other
\* than the default shown in the Normal mode is followed by the default
\* text, by a newly set notification, or by the end of the Normal mode
C33_EventuallyDefault ==
    (phase = "tui" /\ input_mode = "Normal"
        /\ status_message # default_status_message)
    ~> \/ status_message = default_status_message
       \/ phase # "tui"
       \/ input_mode # "Normal"
       \/ pc = "tick" /\ status_message_time = Some(InstantNow)
====
